---------------------------- MODULE Spec2Model ----------------------------
(***************************************************************************)
(* A model of the Food City supermarket application (src/app.py).          *)
(*                                                                         *)
(* The state is the four CSV files on disk, the position of main() (not    *)
(* running, in the login loop, in the menu loop), and what the last        *)
(* executed step was given (its typed input, its reading of the clock) and *)
(* produced.                                                               *)
(*                                                                         *)
(* Text is modelled as a sequence of one-character strings, so that the    *)
(* conversions of the program (csv writing and reading, int(), strptime,   *)
(* strftime) are computed character by character.  Floating point results  *)
(* (np.mean, np.median) are kept as exact fractions <<numerator,           *)
(* denominator>>.                                                          *)
(***************************************************************************)
EXTENDS Integers, Sequences, FiniteSets, TLC

VARIABLES fs, pc, last, report

vars == <<fs, pc, last, report>>

---------------------------------------------------------------------------
(* Text constants of the program and of the inputs.                        *)

USER_DATA_FILE == "users.csv"
BRANCH_DATA_FILE == "branches.csv"
PRODUCT_DATA_FILE == "products.csv"
SALES_DATA_FILE == "sales.csv"

FileNames == {USER_DATA_FILE, BRANCH_DATA_FILE, PRODUCT_DATA_FILE, SALES_DATA_FILE}

headers_users ==
    << <<"U", "s", "e", "r", "n", "a", "m", "e">>,
       <<"P", "a", "s", "s", "w", "o", "r", "d">> >>

headers_branches ==
    << <<"B", "r", "a", "n", "c", "h", " ", "I", "D">>,
       <<"B", "r", "a", "n", "c", "h", " ", "N", "a", "m", "e">>,
       <<"L", "o", "c", "a", "t", "i", "o", "n">> >>

headers_products ==
    << <<"P", "r", "o", "d", "u", "c", "t", " ", "I", "D">>,
       <<"P", "r", "o", "d", "u", "c", "t", " ", "N", "a", "m", "e">> >>

headers_sales ==
    << <<"B", "r", "a", "n", "c", "h", " ", "I", "D">>,
       <<"P", "r", "o", "d", "u", "c", "t", " ", "I", "D">>,
       <<"A", "m", "o", "u", "n", "t", " ", "S", "o", "l", "d">>,
       <<"D", "a", "t", "e">> >>

Digits == {"0", "1", "2", "3", "4", "5", "6", "7", "8", "9"}

DigitVal(c) ==
    CASE c = "0" -> 0 [] c = "1" -> 1 [] c = "2" -> 2 [] c = "3" -> 3
      [] c = "4" -> 4 [] c = "5" -> 5 [] c = "6" -> 6 [] c = "7" -> 7
      [] c = "8" -> 8 [] c = "9" -> 9

DigitChar(n) ==
    CASE n = 0 -> "0" [] n = 1 -> "1" [] n = 2 -> "2" [] n = 3 -> "3"
      [] n = 4 -> "4" [] n = 5 -> "5" [] n = 6 -> "6" [] n = 7 -> "7"
      [] n = 8 -> "8" [] n = 9 -> "9"

---------------------------------------------------------------------------
(* The file system: each file is absent, or a sequence of lines of text.   *)

AbsentFile == [exists |-> FALSE, lines |-> <<>>]

os_path_exists(fsys, file_name) == fsys[file_name].exists

(* A removal that leaves the file in place.                                 *)
os_remove_keeps_file(fsys, file_name) == fsys

(* os.remove(file_name).  The commands call it after main() has created    *)
(* every file, so the FileNotFoundError of a missing file is never met.    *)
os_remove(fsys, file_name) == [fsys EXCEPT ![file_name] = AbsentFile]

---------------------------------------------------------------------------
(* csv.writer with the default dialect: a field holding the delimiter, the *)
(* quote character or a line break is written between quotes, with every   *)
(* quote character in it doubled.                                          *)

RECURSIVE Flatten(_)
Flatten(ss) == IF ss = <<>> THEN <<>> ELSE Head(ss) \o Flatten(Tail(ss))

csv_needs_quotes(field) ==
    \E i \in 1..Len(field) : field[i] \in {",", "\"", "\r", "\n"}

csv_write_field(field) ==
    IF csv_needs_quotes(field)
    THEN <<"\"">>
         \o Flatten([i \in 1..Len(field) |->
                       IF field[i] = "\"" THEN <<"\"", "\"">> ELSE <<field[i]>>])
         \o <<"\"">>
    ELSE field

csv_writerow(row) ==
    IF Len(row) = 1 /\ row[1] = <<>>
    THEN <<"\"", "\"">>
    ELSE Flatten([i \in 1..Len(row) |->
                    IF i = 1 THEN csv_write_field(row[i])
                    ELSE <<",">> \o csv_write_field(row[i])])

(* csv.reader on one line: the parser of the csv module, as a state        *)
(* machine over the characters.  st is the parser state, cur the field     *)
(* being read, row the fields read so far.  A blank line is the empty row. *)
(* (A line that ends inside an open quote would continue on the next line; *)
(* csv.writer closes every quote it opens, so no line of a file written by *)
(* save_data does.)                                                        *)
RECURSIVE csv_parse(_, _, _, _, _)
csv_parse(line, i, st, cur, row) ==
    IF i > Len(line)
    THEN IF st = "START_RECORD" THEN row ELSE Append(row, cur)
    ELSE LET c == line[i] IN
         CASE st \in {"START_RECORD", "START_FIELD"} ->
                 IF c = "\"" THEN csv_parse(line, i + 1, "IN_QUOTED_FIELD", <<>>, row)
                 ELSE IF c = "," THEN csv_parse(line, i + 1, "START_FIELD", <<>>, Append(row, <<>>))
                 ELSE csv_parse(line, i + 1, "IN_FIELD", <<c>>, row)
           [] st = "IN_FIELD" ->
                 IF c = "," THEN csv_parse(line, i + 1, "START_FIELD", <<>>, Append(row, cur))
                 ELSE csv_parse(line, i + 1, "IN_FIELD", Append(cur, c), row)
           [] st = "IN_QUOTED_FIELD" ->
                 IF c = "\"" THEN csv_parse(line, i + 1, "QUOTE_IN_QUOTED_FIELD", cur, row)
                 ELSE csv_parse(line, i + 1, "IN_QUOTED_FIELD", Append(cur, c), row)
           [] st = "QUOTE_IN_QUOTED_FIELD" ->
                 IF c = "\"" THEN csv_parse(line, i + 1, "IN_QUOTED_FIELD", Append(cur, c), row)
                 ELSE IF c = "," THEN csv_parse(line, i + 1, "START_FIELD", <<>>, Append(row, cur))
                 ELSE csv_parse(line, i + 1, "IN_FIELD", Append(cur, c), row)

csv_reader(lines) ==
    [i \in 1..Len(lines) |-> csv_parse(lines[i], 1, "START_RECORD", <<>>, <<>>)]

---------------------------------------------------------------------------
(* CSVDataLoader.load_data and the load_data / save_data utilities.        *)

(* next(reader) skips the header row: Tail of the parsed lines.  A file    *)
(* that exists with no line at all would make next() raise StopIteration;  *)
(* Tail is then undefined, and no reachable state has such a file.         *)
load_data(fsys, file_name) ==
    IF os_path_exists(fsys, file_name)
    THEN Tail(csv_reader(fsys[file_name].lines))
    ELSE <<>>

(* save_data opens in append mode: the header is written only when the     *)
(* file did not exist and headers are given (<<>> stands for None).        *)
save_data(fsys, file_name, data, headers) ==
    LET file_exists == os_path_exists(fsys, file_name)
        old == IF file_exists THEN fsys[file_name].lines ELSE <<>>
        head == IF ~file_exists /\ headers # <<>>
                THEN <<csv_writerow(headers)>> ELSE <<>>
        body == [i \in 1..Len(data) |-> csv_writerow(data[i])]
    IN [fsys EXCEPT ![file_name] = [exists |-> TRUE, lines |-> old \o head \o body]]

---------------------------------------------------------------------------
(* int(text): an optional sign followed by one or more decimal digits;     *)
(* any other text raises ValueError.  (int() also strips blanks and takes  *)
(* underscores between digits; no amount of the model holds either.)       *)

int_digits(text) ==
    IF text # <<>> /\ Head(text) \in {"+", "-"} THEN Tail(text) ELSE text

int_ok(text) ==
    /\ int_digits(text) # <<>>
    /\ \A i \in 1..Len(int_digits(text)) : int_digits(text)[i] \in Digits

RECURSIVE digits_value(_, _)
digits_value(ds, acc) ==
    IF ds = <<>> THEN acc ELSE digits_value(Tail(ds), 10 * acc + DigitVal(Head(ds)))

int_value(text) ==
    IF Head(text) = "-" THEN 0 - digits_value(int_digits(text), 0)
    ELSE digits_value(int_digits(text), 0)

---------------------------------------------------------------------------
(* The proleptic Gregorian calendar of the datetime module.                *)

is_leap(y) == y % 4 = 0 /\ (y % 100 # 0 \/ y % 400 = 0)

days_in_month(y, m) ==
    IF m = 2 THEN (IF is_leap(y) THEN 29 ELSE 28)
    ELSE IF m \in {4, 6, 9, 11} THEN 30 ELSE 31

RECURSIVE days_before_month(_, _)
days_before_month(y, m) ==
    IF m = 1 THEN 0 ELSE days_before_month(y, m - 1) + days_in_month(y, m - 1)

days_before_year(y) ==
    (y - 1) * 365 + ((y - 1) \div 4) - ((y - 1) \div 100) + ((y - 1) \div 400)

(* date.toordinal(): 1 January of year 1 is day 1.                         *)
ymd2ord(y, m, d) == days_before_year(y) + days_before_month(y, m) + d

(* A datetime is a day ordinal and a time of day; time of day 0 is         *)
(* midnight, every later instant of the day is a larger number.            *)
datetime(y, m, d, tod) == [ord |-> ymd2ord(y, m, d), tod |-> tod]

(* date.weekday(): Monday is 0, Sunday is 6.                               *)
weekday(dt) == (dt.ord + 6) % 7

(* datetime - timedelta(days=n) and datetime + timedelta(days=n): the time *)
(* of day is carried along unchanged.                                      *)
minus_days(dt, n) == [dt EXCEPT !.ord = dt.ord - n]

plus_days(dt, n) == [dt EXCEPT !.ord = dt.ord + n]

datetime_le(a, b) == a.ord < b.ord \/ (a.ord = b.ord /\ a.tod <= b.tod)

---------------------------------------------------------------------------
(* datetime.strptime with '%Y-%m-%d' and '%m/%d/%Y', and strftime with     *)
(* '%Y-%m-%d'.                                                             *)

RECURSIVE split(_, _, _)
split(text, sep, cur) ==
    IF text = <<>> THEN <<cur>>
    ELSE IF Head(text) = sep THEN <<cur>> \o split(Tail(text), sep, <<>>)
    ELSE split(Tail(text), sep, Append(cur, Head(text)))

all_digits(text) == \A i \in 1..Len(text) : text[i] \in Digits

(* %Y is exactly four digits; %m and %d are one or two digits, in 1..12    *)
(* and 1..31; the date must then exist in the calendar (year 1 or later).  *)
strptime_fields(ytext, mtext, dtext) ==
    IF /\ Len(ytext) = 4 /\ all_digits(ytext)
       /\ Len(mtext) \in {1, 2} /\ all_digits(mtext)
       /\ Len(dtext) \in {1, 2} /\ all_digits(dtext)
    THEN LET y == digits_value(ytext, 0)
             m == digits_value(mtext, 0)
             d == digits_value(dtext, 0)
         IN IF y >= 1 /\ m \in 1..12 /\ d >= 1 /\ d <= days_in_month(y, m)
            THEN [ok |-> TRUE, dt |-> datetime(y, m, d, 0)]
            ELSE [ok |-> FALSE, dt |-> [ord |-> 0, tod |-> 0]]
    ELSE [ok |-> FALSE, dt |-> [ord |-> 0, tod |-> 0]]

strptime(date_str, fmt) ==
    IF fmt = "%Y-%m-%d"
    THEN LET p == split(date_str, "-", <<>>)
         IN IF Len(p) = 3 THEN strptime_fields(p[1], p[2], p[3])
            ELSE [ok |-> FALSE, dt |-> [ord |-> 0, tod |-> 0]]
    ELSE LET p == split(date_str, "/", <<>>)
         IN IF Len(p) = 3 THEN strptime_fields(p[3], p[1], p[2])
            ELSE [ok |-> FALSE, dt |-> [ord |-> 0, tod |-> 0]]

(* parse_date: the first format that parses; ok = FALSE stands for the     *)
(* ValueError "Date format ... is not recognized".                         *)
parse_date(date_str) ==
    IF strptime(date_str, "%Y-%m-%d").ok THEN strptime(date_str, "%Y-%m-%d")
    ELSE strptime(date_str, "%m/%d/%Y")

RECURSIVE zero_pad(_, _)
zero_pad(n, width) ==
    IF width = 0 THEN <<>>
    ELSE Append(zero_pad(n \div 10, width - 1), DigitChar(n % 10))

(* now.strftime('%Y-%m-%d') of a clock reading [y, m, d, tod].             *)
strftime(now) ==
    zero_pad(now.y, 4) \o <<"-">> \o zero_pad(now.m, 2) \o <<"-">> \o zero_pad(now.d, 2)

(* datetime.today() / datetime.now() of a clock reading.                   *)
datetime_of(now) == datetime(now.y, now.m, now.d, now.tod)

---------------------------------------------------------------------------
(* sum() and the numpy reductions on a list of integers.                   *)

RECURSIVE sum(_)
sum(v) == IF v = <<>> THEN 0 ELSE Head(v) + sum(Tail(v))

np_mean(v) == <<sum(v), Len(v)>>

(* A maximum that takes the last element, as if the list were sorted.      *)
np_max_last(v) == v[Len(v)]

np_max(v) == CHOOSE x \in {v[i] : i \in 1..Len(v)} : \A i \in 1..Len(v) : v[i] <= x

np_min(v) == CHOOSE x \in {v[i] : i \in 1..Len(v)} : \A i \in 1..Len(v) : x <= v[i]

np_median(v) ==
    LET s == SortSeq(v, LAMBDA a, b : a < b)
        n == Len(v)
    IN IF n % 2 = 1 THEN <<s[(n + 1) \div 2], 1>>
       ELSE <<s[n \div 2] + s[(n \div 2) + 1], 2>>

---------------------------------------------------------------------------
(* What a step produced.  outcome names how the step ended: a value the    *)
(* step returns or shows, or the exception it raised.                      *)

Blank ==
    [outcome |-> "none", sample |-> <<>>, total |-> 0, mean |-> <<0, 1>>,
     max |-> 0, min |-> 0, median |-> <<0, 1>>, summary |-> <<>>]

raised(exception) == [Blank EXCEPT !.outcome = exception]

Exceptions == {"ValueError_int", "ValueError_date", "KeyError", "ValueError_unpack"}

(* [int(sale[2]) for sale in rows]: the list, when every amount converts.  *)
amounts_ok(rows) == \A i \in 1..Len(rows) : int_ok(rows[i][3])

amounts(rows) == [i \in 1..Len(rows) |-> int_value(rows[i][3])]

---------------------------------------------------------------------------
(* login_user: csv.reader over every line of the user file.                *)

login_user(fsys, username, password) ==
    LET rows == csv_reader(fsys[USER_DATA_FILE].lines)
    IN \E i \in 1..Len(rows) : rows[i][1] = username /\ rows[i][2] = password

---------------------------------------------------------------------------
(* analyze_monthly_sales                                                   *)

analyze_monthly_sales(fsys, branch_id) ==
    LET sales_data == load_data(fsys, SALES_DATA_FILE)
        selected == SelectSeq(sales_data, LAMBDA sale : sale[1] = branch_id)
    IN IF ~amounts_ok(selected) THEN raised("ValueError_int")
       ELSE IF amounts(selected) = <<>> THEN [Blank EXCEPT !.outcome = "no_data"]
       ELSE [Blank EXCEPT !.outcome = "histogram", !.sample = amounts(selected)]

---------------------------------------------------------------------------
(* analyze_price                                                           *)

analyze_price(fsys, product_id) ==
    LET sales_data == load_data(fsys, SALES_DATA_FILE)
        selected == SelectSeq(sales_data, LAMBDA sale : sale[2] = product_id)
    IN IF ~amounts_ok(selected) THEN raised("ValueError_int")
       ELSE IF amounts(selected) = <<>> THEN [Blank EXCEPT !.outcome = "no_data"]
       ELSE LET product_sales == amounts(selected)
            IN [Blank EXCEPT !.outcome = "boxplot",
                             !.sample = product_sales,
                             !.mean = np_mean(product_sales),
                             !.max = np_max(product_sales),
                             !.min = np_min(product_sales),
                             !.median = np_median(product_sales)]

---------------------------------------------------------------------------
(* analyze_weekly_sales                                                    *)

(* The list comprehension, sale by sale in log order: parse_date of the    *)
(* date is evaluated for every sale, int() of the amount only for a sale   *)
(* inside the window; the first exception ends the comprehension.          *)
RECURSIVE weekly_comprehension(_, _, _, _)
weekly_comprehension(sales, week_start, week_end, acc) ==
    IF sales = <<>> THEN [exception |-> "none", list |-> acc]
    ELSE LET sale == Head(sales)
             parsed == parse_date(sale[4])
         IN IF ~parsed.ok THEN [exception |-> "ValueError_date", list |-> acc]
            ELSE IF datetime_le(week_start, parsed.dt) /\ datetime_le(parsed.dt, week_end)
            THEN IF int_ok(sale[3])
                 THEN weekly_comprehension(Tail(sales), week_start, week_end,
                                           Append(acc, int_value(sale[3])))
                 ELSE [exception |-> "ValueError_int", list |-> acc]
            ELSE weekly_comprehension(Tail(sales), week_start, week_end, acc)

analyze_weekly_sales(fsys, now) ==
    LET sales_data == load_data(fsys, SALES_DATA_FILE)
        current_date == datetime_of(now)
        week_start == minus_days(current_date, weekday(current_date))
        week_end == plus_days(week_start, 6)
        weekly == weekly_comprehension(sales_data, week_start, week_end, <<>>)
        weekly_sales == weekly.list
    IN IF weekly.exception # "none" THEN raised(weekly.exception)
       ELSE [Blank EXCEPT !.outcome = "printed",
                          !.sample = weekly_sales,
                          !.total = sum(weekly_sales),
                          !.mean = IF weekly_sales # <<>> THEN np_mean(weekly_sales)
                                   ELSE <<0, 1>>]

---------------------------------------------------------------------------
(* analyze_total_sales_amount                                              *)

analyze_total_sales_amount(fsys) ==
    LET sales_data == load_data(fsys, SALES_DATA_FILE)
    IN IF ~amounts_ok(sales_data) THEN raised("ValueError_int")
       ELSE [Blank EXCEPT !.outcome = "printed", !.total = sum(amounts(sales_data))]

---------------------------------------------------------------------------
(* analyze_all_branches_monthly_sales.  A dict is a sequence of            *)
(* <<key, value>> pairs with distinct keys, in insertion order.            *)

dict_has(d, key) == \E i \in 1..Len(d) : d[i][1] = key

dict_set(d, key, value) ==
    IF dict_has(d, key)
    THEN [i \in 1..Len(d) |-> IF d[i][1] = key THEN <<key, value>> ELSE d[i]]
    ELSE Append(d, <<key, value>>)

dict_get(d, key) == d[CHOOSE i \in 1..Len(d) : d[i][1] = key][2]

dict_keys(d) == {d[i][1] : i \in 1..Len(d)}

(* {branch[0]: 0 for branch in branch_data}                                *)
RECURSIVE summary_seed(_, _)
summary_seed(branch_data, d) ==
    IF branch_data = <<>> THEN d
    ELSE summary_seed(Tail(branch_data), dict_set(d, Head(branch_data)[1], 0))

(* The loop over the sales: monthly_sales_summary[branch_id] is read       *)
(* before int(sale[2]) is evaluated, so a missing key raises first.        *)
RECURSIVE summary_loop(_, _)
summary_loop(sales, d) ==
    IF sales = <<>> THEN [exception |-> "none", dict |-> d]
    ELSE LET sale == Head(sales)
             branch_id == sale[1]
         IN IF ~dict_has(d, branch_id) THEN [exception |-> "KeyError", dict |-> d]
            ELSE IF ~int_ok(sale[3]) THEN [exception |-> "ValueError_int", dict |-> d]
            ELSE summary_loop(Tail(sales),
                              dict_set(d, branch_id, dict_get(d, branch_id) + int_value(sale[3])))

analyze_all_branches_monthly_sales(fsys) ==
    LET sales_data == load_data(fsys, SALES_DATA_FILE)
        branch_data == load_data(fsys, BRANCH_DATA_FILE)
        looped == summary_loop(sales_data, summary_seed(branch_data, <<>>))
        monthly_sales_summary == looped.dict
    IN IF looped.exception # "none" THEN raised(looped.exception)
       ELSE IF monthly_sales_summary = <<>>
       THEN raised("ValueError_unpack")
       ELSE [Blank EXCEPT !.outcome = "bar_chart", !.summary = monthly_sales_summary]

---------------------------------------------------------------------------
(* Bounds and inputs.                                                      *)

MaxBranches == 2
MaxSales == 2
MaxLog == 3

(* Rows typed at "Register a New Branch": the two share a branch ID; one   *)
(* name is left empty, the other holds the csv delimiter, and one location *)
(* holds the csv quote character.                                          *)
BranchInputs ==
    { << <<"1">>, <<>>, <<"X">> >>,
      << <<"1">>, <<"B", ",", "C">>, <<"Z", "\"">> >> }

(* Branch ID, product ID and amount typed at "Record a New Sale".          *)
SaleInputs ==
    { << <<"2">>, <<"2">>, <<"1", "0", "0">> >>,
      << <<"1">>, <<"1">>, <<"x">> >> }

(* Branch or product ID typed at the analysis prompts.                     *)
KeyInputs == { <<"1">>, <<"2">> }

testuser == <<"t", "e", "s", "t", "u", "s", "e", "r">>

testpass == <<"t", "e", "s", "t", "p", "a", "s", "s">>

(* Username and password typed at the login prompt.                        *)
LoginInputs ==
    { <<testuser, testpass>>,
      <<testuser, <<"x">> >>,
      <<headers_users[1], headers_users[2]>> }

(* Clock readings: Monday 8 January 2024 at midnight and later in the day, *)
(* and Sunday 14 January 2024 during the day.                              *)
ClockReadings ==
    { [y |-> 2024, m |-> 1, d |-> 8, tod |-> 0],
      [y |-> 2024, m |-> 1, d |-> 8, tod |-> 1],
      [y |-> 2024, m |-> 1, d |-> 14, tod |-> 1] }

(* Sale rows found in a sale file written outside the application: both    *)
(* date formats, a date that is no date, an amount that is no integer.     *)
StoredSales ==
    { << <<"1">>, <<"1">>, <<"1", "0", "0">>, <<"2", "0", "2", "4", "-", "0", "1", "-", "0", "8">> >>,
      << <<"1">>, <<"1">>, <<"5", "0">>, <<"0", "1", "/", "1", "4", "/", "2", "0", "2", "4">> >>,
      << <<"2">>, <<"1">>, <<"-", "5">>, <<"2", "0", "2", "4", "-", "1", "-", "1", "0">> >>,
      << <<"1">>, <<"2">>, <<"x">>, <<"1", "/", "9", "/", "2", "0", "2", "4">> >>,
      << <<"2">>, <<"2">>, <<"3", "0", "0">>, <<"0", "1", "/", "0", "5", "/", "2", "0", "2", "4">> >>,
      << <<"2">>, <<"2">>, <<"2", "0">>, <<"2", "0", "2", "4", "-", "0", "2", "-", "3", "0">> >> }

(* Branch files found on disk.                                             *)
StoredBranches ==
    { <<>>,
      << << <<"1">>, <<"A">>, <<"X">> >> >>,
      << << <<"1">>, <<"A">>, <<"X">> >>, << <<"2">>, <<"D">>, <<"Z">> >> >> }

(* Sequences over S of length at most n.                                   *)
SeqUpTo(S, n) == UNION {[1..k -> S] : k \in 0..n}

---------------------------------------------------------------------------
(* The steps of main().                                                    *)

(* The record of a step: the command, the text typed, and the clock        *)
(* reading the step took (none, or one).                                   *)
Step(cmd, args) == [cmd |-> cmd, args |-> args, now |-> <<>>]

TimedStep(cmd, args, now) == [cmd |-> cmd, args |-> args, now |-> <<now>>]

after(result) == IF result.outcome \in Exceptions THEN "off" ELSE "menu"

(* Lines 262-276: each file that does not exist is created with its header. *)
bootstrap(fsys) ==
    LET f1 == IF ~os_path_exists(fsys, USER_DATA_FILE)
              THEN save_data(fsys, USER_DATA_FILE, <<>>, headers_users) ELSE fsys
        f2 == IF ~os_path_exists(f1, BRANCH_DATA_FILE)
              THEN save_data(f1, BRANCH_DATA_FILE, <<>>, headers_branches) ELSE f1
        f3 == IF ~os_path_exists(f2, PRODUCT_DATA_FILE)
              THEN save_data(f2, PRODUCT_DATA_FILE, <<>>, headers_products) ELSE f2
    IN IF ~os_path_exists(f3, SALES_DATA_FILE)
       THEN save_data(f3, SALES_DATA_FILE, <<>>, headers_sales) ELSE f3

main_bootstrap ==
    /\ pc = "off"
    /\ fs' = bootstrap(fs)
    /\ pc' = "login"
    /\ last' = Step("main", <<>>)
    /\ report' = Blank

main_login(username, password) ==
    /\ pc = "login"
    /\ LET ok == login_user(fs, username, password)
       IN /\ pc' = IF ok THEN "menu" ELSE "login"
          /\ report' = [Blank EXCEPT !.outcome = IF ok THEN "True" ELSE "False"]
    /\ last' = Step("login", <<username, password>>)
    /\ UNCHANGED fs

RegisterBranchCommand(branch_id, branch_name, branch_location) ==
    /\ pc = "menu"
    /\ Len(load_data(fs, BRANCH_DATA_FILE)) < MaxBranches
    /\ LET branches_data == load_data(fs, BRANCH_DATA_FILE)
           new_branch_entry == <<branch_id, branch_name, branch_location>>
       IN fs' = save_data(os_remove(fs, BRANCH_DATA_FILE), BRANCH_DATA_FILE,
                          Append(branches_data, new_branch_entry), headers_branches)
    /\ last' = Step("register_branch", <<branch_id, branch_name, branch_location>>)
    /\ report' = [Blank EXCEPT !.outcome = "added"]
    /\ UNCHANGED pc

RecordSaleCommand(branch_id, product_id, amount_sold, now) ==
    /\ pc = "menu"
    /\ Len(load_data(fs, SALES_DATA_FILE)) < MaxSales
    /\ LET sales_data == load_data(fs, SALES_DATA_FILE)
           new_sale_entry == <<branch_id, product_id, amount_sold, strftime(now)>>
       IN fs' = save_data(os_remove(fs, SALES_DATA_FILE), SALES_DATA_FILE,
                          Append(sales_data, new_sale_entry), headers_sales)
    /\ last' = TimedStep("record_sale", <<branch_id, product_id, amount_sold>>, now)
    /\ report' = [Blank EXCEPT !.outcome = "recorded"]
    /\ UNCHANGED pc

BranchMonthlySalesAnalysisCommand(branch_id) ==
    /\ pc = "menu"
    /\ report' = analyze_monthly_sales(fs, branch_id)
    /\ pc' = after(report')
    /\ last' = Step("branch_monthly", <<branch_id>>)
    /\ UNCHANGED fs

ProductPriceAnalysisCommand(product_id) ==
    /\ pc = "menu"
    /\ report' = analyze_price(fs, product_id)
    /\ pc' = after(report')
    /\ last' = Step("product_price", <<product_id>>)
    /\ UNCHANGED fs

NetworkWeeklySalesAnalysisCommand(now) ==
    /\ pc = "menu"
    /\ report' = analyze_weekly_sales(fs, now)
    /\ pc' = after(report')
    /\ last' = TimedStep("network_weekly", <<>>, now)
    /\ UNCHANGED fs

TotalSalesAnalysisCommand ==
    /\ pc = "menu"
    /\ report' = analyze_total_sales_amount(fs)
    /\ pc' = after(report')
    /\ last' = Step("total_sales", <<>>)
    /\ UNCHANGED fs

AllBranchesMonthlySalesAnalysisCommand ==
    /\ pc = "menu"
    /\ report' = analyze_all_branches_monthly_sales(fs)
    /\ pc' = after(report')
    /\ last' = Step("all_branches", <<>>)
    /\ UNCHANGED fs

main_logout ==
    /\ pc = "menu"
    /\ pc' = "off"
    /\ last' = Step("logout", <<>>)
    /\ report' = [Blank EXCEPT !.outcome = "logged_out"]
    /\ UNCHANGED fs

main_invalid_option ==
    /\ pc = "menu"
    /\ last' = Step("invalid_option", <<>>)
    /\ report' = [Blank EXCEPT !.outcome = "invalid_option"]
    /\ UNCHANGED <<fs, pc>>

---------------------------------------------------------------------------
(* Spec: the application from a first start.  No data file exists yet; the *)
(* user file is missing, or was provisioned with one account (the          *)
(* application itself never writes an account).                            *)

NoFiles == [f \in FileNames |-> AbsentFile]

Init ==
    /\ fs \in { NoFiles,
                save_data(NoFiles, USER_DATA_FILE, <<<<testuser, testpass>>>>, headers_users) }
    /\ pc = "off"
    /\ last = Step("none", <<>>)
    /\ report = Blank

Analyses ==
    \/ \E k \in KeyInputs : BranchMonthlySalesAnalysisCommand(k)
    \/ \E k \in KeyInputs : ProductPriceAnalysisCommand(k)
    \/ \E now \in ClockReadings : NetworkWeeklySalesAnalysisCommand(now)
    \/ TotalSalesAnalysisCommand
    \/ AllBranchesMonthlySalesAnalysisCommand

Next ==
    \/ main_bootstrap
    \/ \E c \in LoginInputs : main_login(c[1], c[2])
    \/ \E b \in BranchInputs : RegisterBranchCommand(b[1], b[2], b[3])
    \/ \E s \in SaleInputs, now \in ClockReadings : RecordSaleCommand(s[1], s[2], s[3], now)
    \/ Analyses
    \/ main_logout
    \/ main_invalid_option

Spec == Init /\ [][Next]_vars

---------------------------------------------------------------------------
(* SpecStore: the analyses applied to data files as found on disk.         *)

stored_files(branches, sales) ==
    save_data(
      save_data(bootstrap(NoFiles), BRANCH_DATA_FILE, branches, <<>>),
      SALES_DATA_FILE, sales, <<>>)

InitStore ==
    /\ \E branches \in StoredBranches : \E sales \in SeqUpTo(StoredSales, MaxLog) :
          fs = stored_files(branches, sales)
    /\ pc = "menu"
    /\ last = Step("none", <<>>)
    /\ report = Blank

NextStore == Analyses

SpecStore == InitStore /\ [][NextStore]_vars

---------------------------------------------------------------------------
(* The stores as the application reads them.                               *)

BranchRows == load_data(fs, BRANCH_DATA_FILE)

SaleRows == load_data(fs, SALES_DATA_FILE)

BranchIds == {BranchRows[i][1] : i \in 1..Len(BranchRows)}

(* The sum of the amounts of the sales of branch b (amounts all integer).  *)
BranchTotal(b) == sum(amounts(SelectSeq(SaleRows, LAMBDA sale : sale[1] = b)))

SummaryIsGroupSum ==
    /\ dict_keys(report.summary) = BranchIds
    /\ \A i \in 1..Len(report.summary) :
          report.summary[i][2] = BranchTotal(report.summary[i][1])

(* Comparison of fractions with positive denominators.                     *)
frac_le(a, b) == a[1] * b[2] <= b[1] * a[2]

OtherFilesUnchanged(file_name) ==
    \A f \in FileNames \ {file_name} : fs'[f] = fs[f]

---------------------------------------------------------------------------
(* C1: after analyze_all_branches_monthly_sales, the summary mapping has   *)
(* been built, its keys are exactly the branch IDs of the branch store and *)
(* each value is the sum of the amounts of the sales with that branch ID.  *)
(* Stated for the sale logs whose amounts are all integers, where the sums *)
(* are defined.  (The mapping is complete when the bar chart is drawn, and *)
(* when only the unpacking of an empty mapping failed.)                    *)
C1_SummaryIsGroupSum ==
    (last.cmd = "all_branches" /\ amounts_ok(SaleRows)) =>
        /\ report.outcome \in {"bar_chart", "ValueError_unpack"}
        /\ SummaryIsGroupSum

(* C2: analyze_weekly_sales, run at any clock reading on a log whose dates *)
(* all parse, reports as total the sum of the amounts of exactly the sales *)
(* dated Monday to Sunday (both included) of the week of the reading, and  *)
(* as average their arithmetic mean (0 and 0 when there is none).  Stated  *)
(* for the logs whose amounts in that week are integers.                   *)
C2_WeeklyCoversMondayToSunday ==
    (/\ last.cmd = "network_weekly"
     /\ \A i \in 1..Len(SaleRows) : parse_date(SaleRows[i][4]).ok) =>
        LET now == last.now[1]
            today == ymd2ord(now.y, now.m, now.d)
            monday == today - ((today + 6) % 7)
            in_week == SelectSeq(SaleRows,
                          LAMBDA sale : parse_date(sale[4]).dt.ord \in monday..(monday + 6))
        IN amounts_ok(in_week) =>
             /\ report.outcome = "printed"
             /\ report.total = sum(amounts(in_week))
             /\ report.mean[1] * (IF in_week = <<>> THEN 1 ELSE Len(in_week))
                   = sum(amounts(in_week)) * report.mean[2]

(* C3: when a sale of the log has a branch ID that is not registered,      *)
(* analyze_all_branches_monthly_sales does not fail: the bar chart is      *)
(* produced for the registered branches, that sale left out.  Stated for   *)
(* a non-empty branch store and integer amounts.                           *)
C3_UnknownBranchSaleDropped ==
    (/\ last.cmd = "all_branches"
     /\ amounts_ok(SaleRows)
     /\ BranchRows # <<>>
     /\ \E i \in 1..Len(SaleRows) : SaleRows[i][1] \notin BranchIds) =>
        /\ report.outcome = "bar_chart"
        /\ SummaryIsGroupSum

(* C4: a step of RegisterBranchCommand leaves the branch store holding the *)
(* rows it held, in order and unchanged, followed by the row of the three  *)
(* entered fields; a step of RecordSaleCommand does the same to the sale   *)
(* store with the entered fields and the date of the day; no other file    *)
(* changes.                                                                *)
C4_AppendOnly ==
    [][ /\ (last'.cmd = "register_branch" =>
              /\ load_data(fs', BRANCH_DATA_FILE) = Append(BranchRows, last'.args)
              /\ OtherFilesUnchanged(BRANCH_DATA_FILE))
        /\ (last'.cmd = "record_sale" =>
              /\ load_data(fs', SALES_DATA_FILE)
                    = Append(SaleRows, Append(last'.args, strftime(last'.now[1])))
              /\ OtherFilesUnchanged(SALES_DATA_FILE)) ]_vars

(* C4 witness: a branch was registered into a store that already held a    *)
(* row, one whose name needs csv quoting.                                  *)
C4_Witness ==
    /\ last.cmd = "register_branch"
    /\ Len(BranchRows) = 2
    /\ BranchRows[1][2] = <<"B", ",", "C">>
    /\ BranchRows[2] = last.args

(* C5: no two rows of the branch store have the same branch ID.            *)
C5_BranchIdUnique ==
    \A i, j \in 1..Len(BranchRows) : i # j => BranchRows[i][1] # BranchRows[j][1]

(* C6: every stored sale has an amount that is an integer >= 0, so that    *)
(* the total of the log can be computed.                                   *)
C6_AmountsNonNegativeIntegers ==
    /\ \A i \in 1..Len(SaleRows) :
          int_ok(SaleRows[i][3]) /\ int_value(SaleRows[i][3]) >= 0
    /\ pc = "menu" => analyze_total_sales_amount(fs).outcome = "printed"

(* C7: login_user returns True exactly when the entered username and       *)
(* password are those of a stored account, a data row of the user file.    *)
C7_LoginIffStoredAccount ==
    last.cmd = "login" =>
        LET accounts == load_data(fs, USER_DATA_FILE)
        IN (report.outcome = "True") <=>
              (\E i \in 1..Len(accounts) :
                  accounts[i][1] = last.args[1] /\ accounts[i][2] = last.args[2])

(* C8: analyze_monthly_sales(branch_id) and analyze_price(product_id) end  *)
(* with the no-data outcome when no sale of the log has the key; when some *)
(* sale has it they draw their chart from exactly the amounts of the sales *)
(* with the key, in log order.                                             *)
C8_KeyedAnalyses ==
    last.cmd \in {"branch_monthly", "product_price"} =>
        LET column == IF last.cmd = "branch_monthly" THEN 1 ELSE 2
            matching == SelectSeq(SaleRows, LAMBDA sale : sale[column] = last.args[1])
        IN IF matching = <<>>
           THEN report.outcome = "no_data"
           ELSE /\ report.outcome = (IF last.cmd = "branch_monthly"
                                     THEN "histogram" ELSE "boxplot")
                /\ amounts_ok(matching)
                /\ report.sample = amounts(matching)

(* C9: when a sale of the log has a date that parses in neither format,    *)
(* analyze_weekly_sales fails with the error of parse_date.                *)
C9_BadDateRaisesDateError ==
    (/\ last.cmd = "network_weekly"
     /\ \E i \in 1..Len(SaleRows) : ~parse_date(SaleRows[i][4]).ok) =>
        report.outcome = "ValueError_date"

(* C10: for the amounts selected for a product (non-empty, all integers),  *)
(* the statistics of analyze_price satisfy min <= median <= max and        *)
(* min <= mean <= max, min and max being the least and the greatest of     *)
(* the selected amounts.                                                   *)
C10_StatsOrdered ==
    (last.cmd = "product_price" /\ report.outcome = "boxplot") =>
        /\ report.sample # <<>>
        /\ \A i \in 1..Len(report.sample) :
              report.min <= report.sample[i] /\ report.sample[i] <= report.max
        /\ frac_le(<<report.min, 1>>, report.median)
        /\ frac_le(report.median, <<report.max, 1>>)
        /\ frac_le(<<report.min, 1>>, report.mean)
        /\ frac_le(report.mean, <<report.max, 1>>)

(* C10 witness: statistics of two different amounts, the median being the  *)
(* average of the two.                                                     *)
C10_Witness ==
    /\ last.cmd = "product_price"
    /\ report.outcome = "boxplot"
    /\ Len(report.sample) = 2
    /\ report.min < report.max
    /\ report.median[2] = 2

---------------------------------------------------------------------------
(* What remains of C8 and C9 on the logs the data model describes.         *)

(* On a log whose amounts are all integers, the keyed analyses behave as   *)
(* C8 says.                                                                *)
KeyedAnalysesOnIntegerAmounts == amounts_ok(SaleRows) => C8_KeyedAnalyses

(* The weekly analysis never reports a total for a log holding a date that *)
(* does not parse: it raises, the error of parse_date or that of int().    *)
BadDateNeverReported ==
    (/\ last.cmd = "network_weekly"
     /\ \E i \in 1..Len(SaleRows) : ~parse_date(SaleRows[i][4]).ok) =>
        report.outcome \in {"ValueError_date", "ValueError_int"}

====
